---- MODULE Spec2Model ----
(***************************************************************************)
(* A model of the Mega Millions simulator (src/main.py): the generator of  *)
(* draws and tickets, the match evaluator, the per-tier aggregator of      *)
(* main, and the reporter.                                                 *)
(*                                                                         *)
(* Python integers are unbounded and the totals of a run exceed 32 bits    *)
(* (three jackpots are 3,000,000,000), so amounts are kept as signed       *)
(* integers of arbitrary size (Z: a sign and base-10000 limbs, least       *)
(* significant first).  Python floats are modelled by exact rationals (Q). *)
(* Strings are sequences of one-character strings, so that the substring   *)
(* tests and the split of main act on characters as they do in Python.     *)
(***************************************************************************)
EXTENDS Integers, Sequences, FiniteSets, TLC

VARIABLES
    pc,               \* position of main (or of the function under test)
    num_tickets,      \* main: num_tickets
    total_spent,      \* main: total_spent (dollars)
    total_won,        \* main: total_won (a Z)
    win_summary,      \* main: win_summary, key -> WinData
    winning_numbers,  \* main: winning_numbers, <<white_balls, mega_ball>>
    ticket,           \* main: ticket of the current iteration
    prize,            \* main: prize of the current iteration
    key,              \* aggregation key derived from the match description
    i,                \* number of iterations of the ticket loop started
    log,              \* lines given to logger, in order
    out,              \* what was printed on standard output, in order
    raised            \* the exception propagating out of the function, or None

vars == <<pc, num_tickets, total_spent, total_won, win_summary, winning_numbers,
          ticket, prize, key, i, log, out, raised>>

\* No exception
None == "None"

\* A local of main that is not bound yet: Unbound for a tuple, a string or a
\* dictionary, 0 for a number
Unbound == <<>>

-----------------------------------------------------------------------------
(* Unbounded integers: magnitudes are sequences of limbs in 0..9999, least *)
(* significant first, without leading zero limbs.                          *)

Abs(n) == IF n < 0 THEN -n ELSE n

RECURSIVE MagOf(_)
MagOf(n) == IF n = 0 THEN <<>> ELSE <<n % 10000>> \o MagOf(n \div 10000)

Limb(a, j) == IF j <= Len(a) THEN a[j] ELSE 0

RECURSIVE MagAddC(_, _, _, _)
MagAddC(a, b, j, c) ==
    IF j > Len(a) /\ j > Len(b)
    THEN (IF c = 0 THEN <<>> ELSE <<c>>)
    ELSE LET s == Limb(a, j) + Limb(b, j) + c
         IN  <<s % 10000>> \o MagAddC(a, b, j + 1, s \div 10000)

MagAdd(a, b) == MagAddC(a, b, 1, 0)

RECURSIVE Strip(_)
Strip(a) ==
    IF a = <<>> THEN a
    ELSE IF a[Len(a)] = 0 THEN Strip(SubSeq(a, 1, Len(a) - 1)) ELSE a

RECURSIVE MagSubB(_, _, _, _)
MagSubB(a, b, j, br) ==
    IF j > Len(a) THEN <<>>
    ELSE LET d == a[j] - Limb(b, j) - br
         IN  IF d < 0 THEN <<d + 10000>> \o MagSubB(a, b, j + 1, 1)
                      ELSE <<d>> \o MagSubB(a, b, j + 1, 0)

\* a - b for magnitudes with a >= b
MagSub(a, b) == Strip(MagSubB(a, b, 1, 0))

RECURSIVE MagCmpAt(_, _, _)
MagCmpAt(a, b, j) ==
    IF j = 0 THEN 0
    ELSE IF a[j] < b[j] THEN -1
    ELSE IF a[j] > b[j] THEN 1
    ELSE MagCmpAt(a, b, j - 1)

MagCmp(a, b) ==
    IF Len(a) < Len(b) THEN -1
    ELSE IF Len(a) > Len(b) THEN 1
    ELSE MagCmpAt(a, b, Len(a))

RECURSIVE MagMulLimb(_, _, _, _)
MagMulLimb(a, m, j, c) ==
    IF j > Len(a)
    THEN (IF c = 0 THEN <<>> ELSE <<c>>)
    ELSE LET p == a[j] * m + c
         IN  <<p % 10000>> \o MagMulLimb(a, m, j + 1, p \div 10000)

RECURSIVE MagMulFrom(_, _, _)
MagMulFrom(a, b, j) ==
    IF j > Len(b) THEN <<>>
    ELSE MagAdd(Strip(MagMulLimb(a, b[j], 1, 0)),
                LET rest == MagMulFrom(a, b, j + 1)
                IN  IF rest = <<>> THEN <<>> ELSE <<0>> \o rest)

MagMul(a, b) == IF a = <<>> \/ b = <<>> THEN <<>> ELSE Strip(MagMulFrom(a, b, 1))

ZMake(neg, mag) == [neg |-> neg /\ mag # <<>>, mag |-> mag]
ZInt(n) == ZMake(n < 0, MagOf(Abs(n)))
ZZero == ZInt(0)
ZNeg(x) == ZMake(~x.neg, x.mag)
ZAbs(x) == ZMake(FALSE, x.mag)

ZAdd(x, y) ==
    IF x.neg = y.neg THEN ZMake(x.neg, MagAdd(x.mag, y.mag))
    ELSE IF MagCmp(x.mag, y.mag) >= 0 THEN ZMake(x.neg, MagSub(x.mag, y.mag))
    ELSE ZMake(y.neg, MagSub(y.mag, x.mag))

ZSub(x, y) == ZAdd(x, ZNeg(y))
ZMul(x, y) == ZMake(x.neg # y.neg, MagMul(x.mag, y.mag))

\* -1, 0 or 1 as x < y, x = y, x > y
ZCmp(x, y) ==
    IF x.neg /\ ~y.neg THEN -1
    ELSE IF ~x.neg /\ y.neg THEN 1
    ELSE IF x.neg THEN MagCmp(y.mag, x.mag)
    ELSE MagCmp(x.mag, y.mag)

ZIsZero(x) == x.mag = <<>>
ZPos(x) == ~x.neg /\ x.mag # <<>>

-----------------------------------------------------------------------------
(* Exact rationals num/den with den > 0 (not reduced; compared by cross     *)
(* multiplication).  They stand for the floats of the reporter.            *)

QMake(n, d) == IF d.neg THEN [num |-> ZNeg(n), den |-> ZNeg(d)] ELSE [num |-> n, den |-> d]
QOfZ(z) == [num |-> z, den |-> ZInt(1)]
QInt(n) == QOfZ(ZInt(n))
QFrac(n, d) == QMake(ZInt(n), ZInt(d))
QZero == QInt(0)

\* Operands over the same denominator are combined without multiplying the
\* denominators out (the value is the same).
QAdd(x, y) ==
    IF x.den = y.den THEN QMake(ZAdd(x.num, y.num), x.den)
    ELSE QMake(ZAdd(ZMul(x.num, y.den), ZMul(y.num, x.den)), ZMul(x.den, y.den))
QSub(x, y) ==
    IF x.den = y.den THEN QMake(ZSub(x.num, y.num), x.den)
    ELSE QMake(ZSub(ZMul(x.num, y.den), ZMul(y.num, x.den)), ZMul(x.den, y.den))
QMul(x, y) == QMake(ZMul(x.num, y.num), ZMul(x.den, y.den))
\* x / y for y # 0 (the caller raises ZeroDivisionError when y = 0)
QDiv(x, y) ==
    IF x.den = y.den THEN QMake(x.num, y.num)
    ELSE QMake(ZMul(x.num, y.den), ZMul(x.den, y.num))
QAbs(x) == [num |-> ZAbs(x.num), den |-> x.den]
QCmp(x, y) ==
    IF x.den = y.den THEN ZCmp(x.num, y.num)
    ELSE ZCmp(ZMul(x.num, y.den), ZMul(y.num, x.den))
QEq(x, y) == QCmp(x, y) = 0
QLeq(x, y) == QCmp(x, y) <= 0
QIsZero(x) == ZIsZero(x.num)
QPos(x) == ZPos(x.num)
QNeg(x) == x.num.neg

-----------------------------------------------------------------------------
(* Strings as sequences of characters.                                     *)

Digit(n) == <<"0", "1", "2", "3", "4", "5", "6", "7", "8", "9">>[n + 1]

IsSpace(c) == c = " "

\* Python: sub in s
Contains(sub, s) ==
    \E p \in 1..(Len(s) - Len(sub) + 1) : SubSeq(s, p, p + Len(sub) - 1) = sub

RECURSIVE LStrip(_)
LStrip(s) == IF s # <<>> /\ IsSpace(Head(s)) THEN LStrip(Tail(s)) ELSE s

RECURSIVE TakeWord(_)
TakeWord(s) == IF s = <<>> \/ IsSpace(Head(s)) THEN <<>> ELSE <<Head(s)>> \o TakeWord(Tail(s))

\* Python: s.split()[0], for s with at least one word
SplitFirst(s) == TakeWord(LStrip(s))

S_MegaBall == <<"M", "e", "g", "a", " ", "B", "a", "l", "l">>
S_PlusMegaBall == <<" ", "+", " ">> \o S_MegaBall
S_MegaBallOnly == S_MegaBall \o <<" ", "o", "n", "l", "y">>
S_Number == <<" ", "n", "u", "m", "b", "e", "r">>
S_5PlusMegaBall == <<"5">> \o S_PlusMegaBall

-----------------------------------------------------------------------------
(* Bounds of the model.  The random source is an input: of the outcomes of *)
(* random.sample the model explores the two at the ends of the range, and  *)
(* of those of random.choice the lowest MegaChoices - 1 and the highest.   *)

MegaChoices == 2   \* outcomes of random.choice that are explored
MaxShift == 5      \* evaluator inputs: white balls 1..5 shifted by 0..MaxShift
MaxTickets == 3    \* reporter inputs: num_tickets in 0..MaxTickets
MaxCount == 2      \* reporter inputs: a tier count in 0..MaxCount

-----------------------------------------------------------------------------
(* class MegaMillions                                                      *)

JACKPOT_AMOUNT == 1000000000
DEFAULT_TICKET_COST == 2
WHITE_BALL_MAX == 71
MEGA_BALL_MAX == 26
NUM_TICKETS == 10
SAMPLE_SIZE == 5

\* Python's range(start, stop)
Range(start, stop) == [start |-> start, stop |-> stop]
RangeLen(r) == IF r.stop > r.start THEN r.stop - r.start ELSE 0
RangeSet(r) == r.start..(r.stop - 1)

\* MegaMillions.__init__
MegaMillions ==
    [white_ball_range |-> Range(1, WHITE_BALL_MAX),
     mega_ball_range |-> Range(1, MEGA_BALL_MAX),
     ticket_cost |-> DEFAULT_TICKET_COST]

\* The k consecutive values from s, in the order s+1, ..., s+k-1, s: one
\* of the orders in which random.sample may return them.
Window(s, k) == [j \in 1..k |-> s + (j % k)]

\* random.sample(r, k) raises ValueError when the sample is larger than the
\* population (or negative)
SampleRaises(r, k) == k > RangeLen(r) \/ k < 0

\* Outcomes of random.sample(r, k) that the model explores: the window at
\* the low end of the range and the window at its high end.
SampleOutcomes(r, k) == { Window(s, k) : s \in {r.start, r.stop - k} }

\* random.choice(r) raises IndexError on an empty range
ChoiceRaises(r) == RangeLen(r) = 0

\* Outcomes of random.choice(r) that the model explores: the lowest values
\* and the highest value of the range.
ChoiceOutcomes(r) ==
    { m \in ({r.start + j : j \in 0..(MegaChoices - 2)} \cup {r.stop - 1}) : m \in RangeSet(r) }

RECURSIVE InsertSorted(_, _)
InsertSorted(x, s) ==
    IF s = <<>> THEN <<x>>
    ELSE IF x <= Head(s) THEN <<x>> \o s
    ELSE <<Head(s)>> \o InsertSorted(x, Tail(s))

RECURSIVE sorted(_)
sorted(s) == IF s = <<>> THEN <<>> ELSE InsertSorted(Head(s), sorted(Tail(s)))

Returned(v) == [exc |-> None, value |-> v]
Raised(e) == [exc |-> e, value |-> Unbound]

\* Mutant of generate_numbers: the sample is returned as drawn, not sorted
generate_numbers_Unsorted(self) ==
    IF SampleRaises(self.white_ball_range, SAMPLE_SIZE)
    THEN {Raised("ValueError: Failed to generate numbers")}
    ELSE IF ChoiceRaises(self.mega_ball_range)
    THEN {Raised("IndexError")}
    ELSE { Returned(<<w, m>>) :
             w \in SampleOutcomes(self.white_ball_range, SAMPLE_SIZE),
             m \in ChoiceOutcomes(self.mega_ball_range) }

\* MegaMillions.generate_numbers: the set of its outcomes, a returned
\* (white_balls, mega_ball) or a raised exception
generate_numbers(self) ==
    IF SampleRaises(self.white_ball_range, SAMPLE_SIZE)
    THEN {Raised("ValueError: Failed to generate numbers")}
    ELSE IF ChoiceRaises(self.mega_ball_range)
    THEN {Raised("IndexError")}
    ELSE { Returned(<<sorted(w), m>>) :
             w \in SampleOutcomes(self.white_ball_range, SAMPLE_SIZE),
             m \in ChoiceOutcomes(self.mega_ball_range) }

ToSet(s) == {s[j] : j \in 1..Len(s)}

white_matches(t, w) == Cardinality(ToSet(t[1]) \cap ToSet(w[1]))
mega_matches(t, w) == t[2] = w[2]

\* check_win: prize_structure
prize_structure ==
    (<<5, TRUE>> :> 1000000000) @@ (<<5, FALSE>> :> 1000000) @@
    (<<4, TRUE>> :> 10000) @@ (<<4, FALSE>> :> 500) @@
    (<<3, TRUE>> :> 200) @@ (<<3, FALSE>> :> 10) @@
    (<<2, TRUE>> :> 10) @@ (<<1, TRUE>> :> 4) @@ (<<0, TRUE>> :> 2)

\* Mutant of check_win: the mega ball is not compared
check_win_IgnoresMega(t, w) ==
    LET k == <<white_matches(t, w), TRUE>>
    IN  IF k \in DOMAIN prize_structure THEN prize_structure[k] ELSE 0

\* MegaMillions.check_win
check_win(t, w) ==
    LET k == <<white_matches(t, w), mega_matches(t, w)>>
    IN  IF k \in DOMAIN prize_structure THEN prize_structure[k] ELSE 0

\* f"{white_matches} number{'s' if white_matches != 1 else ''}"
NumbersText(n) == <<Digit(n)>> \o S_Number \o (IF n # 1 THEN <<"s">> ELSE <<>>)

\* MegaMillions.get_match_description
get_match_description(t, w) ==
    LET n == white_matches(t, w)
        m == mega_matches(t, w)
    IN  IF n = 0 /\ m THEN S_MegaBallOnly
        ELSE IF m THEN NumbersText(n) \o S_PlusMegaBall
        ELSE NumbersText(n)

\* Mutant of aggregation_key: "5" is looked for before "Mega Ball"
aggregation_key_FiveFirst(match_desc) ==
    IF Contains(S_MegaBallOnly, match_desc) THEN match_desc
    ELSE IF Contains(<<"5">>, match_desc) THEN <<"5">>
    ELSE SplitFirst(match_desc)
         \o (IF Contains(S_MegaBall, match_desc) THEN S_PlusMegaBall ELSE <<>>)

\* main: the aggregation key derived from the match description
aggregation_key(match_desc) ==
    IF Contains(S_MegaBallOnly, match_desc) THEN match_desc
    ELSE IF Contains(<<"5">>, match_desc) /\ Contains(S_MegaBall, match_desc)
    THEN S_5PlusMegaBall
    ELSE SplitFirst(match_desc)
         \o (IF Contains(S_MegaBall, match_desc) THEN S_PlusMegaBall ELSE <<>>)

\* dataclass WinData
WinData(p, d) == [count |-> 0, prize |-> p, total |-> ZZero, odds |-> [num |-> 1, den |-> d]]

\* The keys of initialize_win_summary, in the order of the dictionary
TierOrder ==
    << S_5PlusMegaBall, <<"5">>,
       <<"4">> \o S_PlusMegaBall, <<"4">>,
       <<"3">> \o S_PlusMegaBall, <<"3">>,
       <<"2">> \o S_PlusMegaBall,
       <<"1">> \o S_PlusMegaBall,
       S_MegaBallOnly >>

initialize_win_summary ==
    (TierOrder[1] :> WinData(JACKPOT_AMOUNT, 302575350)) @@
    (TierOrder[2] :> WinData(1000000, 12607306)) @@
    (TierOrder[3] :> WinData(10000, 931001)) @@
    (TierOrder[4] :> WinData(500, 38792)) @@
    (TierOrder[5] :> WinData(200, 14547)) @@
    (TierOrder[6] :> WinData(10, 606)) @@
    (TierOrder[7] :> WinData(10, 693)) @@
    (TierOrder[8] :> WinData(4, 89)) @@
    (TierOrder[9] :> WinData(2, 37))

\* Mutant of record_win: the prize is not added to the tier's total
record_win_NoTotal(ws, k, p) ==
    [ws EXCEPT ![k].count = @ + 1]

\* Mutant of record_win: the tier's total is overwritten by the prize
record_win_Overwrite(ws, k, p) ==
    [ws EXCEPT ![k].count = @ + 1, ![k].total = ZInt(p)]

\* main: win_summary[key].count += 1; win_summary[key].total += prize
record_win(ws, k, p) ==
    [ws EXCEPT ![k].count = @ + 1, ![k].total = ZAdd(@, ZInt(p))]

-----------------------------------------------------------------------------
(* The reporter                                                            *)

\* Mutant of print_summary: the net is total_spent - total_won
print_summary_NetReversed(n, spent, won) ==
    IF spent = 0
    THEN Raised("ZeroDivisionError")
    ELSE Returned([block |-> "Results Summary",
                   tickets |-> n,
                   spent |-> spent,
                   won |-> won,
                   net |-> ZSub(ZInt(spent), won),
                   return |-> QMul(QDiv(QOfZ(won), QInt(spent)), QInt(100))])

\* print_summary: the printed block, or ZeroDivisionError from
\* total_won / total_spent (the f-string is evaluated before print is called)
print_summary(n, spent, won) ==
    IF spent = 0
    THEN Raised("ZeroDivisionError")
    ELSE Returned([block |-> "Results Summary",
                   tickets |-> n,
                   spent |-> spent,
                   won |-> won,
                   net |-> ZSub(won, ZInt(spent)),
                   return |-> QMul(QDiv(QOfZ(won), QInt(spent)), QInt(100))])

Odds(data) == QFrac(data.odds.num, data.odds.den)

\* n * p * (1 - p), whose square root is std_dev
Variance(data, n) == QMul(QMul(QInt(n), Odds(data)), QSub(QInt(1), Odds(data)))

\* Mutant of diff_percent: the division is not guarded
diff_percent_Unguarded(actual, expected) ==
    IF QIsZero(expected)
    THEN Raised("ZeroDivisionError")
    ELSE Returned(QMul(QDiv(QSub(QInt(actual), expected), expected), QInt(100)))

\* ((actual - expected) / expected) * 100 if expected > 0 else 0
diff_percent(actual, expected) ==
    IF QPos(expected)
    THEN Returned(QMul(QDiv(QSub(QInt(actual), expected), expected), QInt(100)))
    ELSE Returned(QZero)

\* _print_probability_row: the printed row.  abs(actual - expected) <=
\* 2 * std_dev is decided on the squares; a negative variance has a complex
\* root, which <= rejects with TypeError.
_print_probability_row(match_type, data, n) ==
    LET expected == QMul(QInt(n), Odds(data))
        actual == data.count
        d == diff_percent(actual, expected)
        dev == QAbs(QSub(QInt(actual), expected))
    IN  IF d.exc # None THEN d
        ELSE IF QNeg(Variance(data, n)) THEN Raised("TypeError")
        ELSE Returned([match_type |-> match_type,
                       expected |-> expected,
                       actual |-> actual,
                       diff_percent |-> d.value,
                       within_2sigma |-> QLeq(QMul(dev, dev), QMul(QInt(4), Variance(data, n)))])

RECURSIVE RowsFrom(_, _, _, _)
RowsFrom(ws, n, j, printed) ==
    IF j > Len(TierOrder) THEN Returned(printed)
    ELSE LET row == _print_probability_row(TierOrder[j], ws[TierOrder[j]], n)
         IN  IF row.exc # None THEN [exc |-> row.exc, value |-> printed]
             ELSE RowsFrom(ws, n, j + 1, Append(printed, row.value))

\* print_probability_analysis: the header, then the rows of the table in
\* dictionary order.  A row that raises ends the call; the header and the rows
\* before it are already printed.
print_probability_analysis(ws, n) ==
    LET rows == RowsFrom(ws, n, 1, <<>>)
    IN  [exc |-> rows.exc,
         value |-> [block |-> "Probability Analysis", rows |-> rows.value]]

-----------------------------------------------------------------------------
(* main                                                                    *)

INFO(msg) == [level |-> "INFO", msg |-> msg]
ERROR(msg) == [level |-> "ERROR", msg |-> msg]

\* Mutant of LoopCount: the loop runs once more
LoopCount_OneMore(n) == n + 1

\* range(num_tickets): the number of iterations of the ticket loop
LoopCount(n) == n

\* except Exception as e: logger.error(...); raise
Fail(e) ==
    /\ log' = Append(log, ERROR(<<"Simulation failed", e>>))
    /\ raised' = e
    /\ pc' = "failed"

Init ==
    /\ pc = "start"
    /\ num_tickets = 0
    /\ total_spent = 0
    /\ total_won = ZZero
    /\ win_summary = Unbound
    /\ winning_numbers = Unbound
    /\ ticket = Unbound
    /\ prize = 0
    /\ key = Unbound
    /\ i = 0
    /\ log = <<>>
    /\ out = <<>>
    /\ raised = None

\* lines 213-220
Start ==
    /\ pc = "start"
    /\ log' = Append(log, INFO("Starting Mega Millions simulation"))
    /\ num_tickets' = NUM_TICKETS
    /\ total_spent' = NUM_TICKETS * MegaMillions.ticket_cost
    /\ total_won' = ZZero
    /\ win_summary' = initialize_win_summary
    /\ pc' = "draw"
    /\ UNCHANGED <<winning_numbers, ticket, prize, key, i, out, raised>>

\* lines 222-224
GenerateDraw ==
    /\ pc = "draw"
    /\ \E r \in generate_numbers(MegaMillions) :
         IF r.exc # None
         THEN /\ Fail(r.exc)
              /\ UNCHANGED <<winning_numbers, out>>
         ELSE /\ winning_numbers' = r.value
              /\ out' = Append(out, [block |-> "Winning numbers", tickets |-> num_tickets,
                                     numbers |-> r.value])
              /\ pc' = IF 0 < LoopCount(num_tickets) THEN "loop" ELSE "summary"
              /\ UNCHANGED <<log, raised>>
    /\ UNCHANGED <<num_tickets, total_spent, total_won, win_summary, ticket, prize, key, i>>

\* lines 226-238: one iteration of the ticket loop
Iterate ==
    /\ pc = "loop"
    /\ i' = i + 1
    /\ \E r \in generate_numbers(MegaMillions) :
         IF r.exc # None
         THEN /\ Fail(r.exc)
              /\ UNCHANGED <<ticket, prize, total_won, win_summary>>
         ELSE \E p \in {check_win(r.value, winning_numbers)} :
              \E k \in {aggregation_key(get_match_description(r.value, winning_numbers))} :
                  /\ ticket' = r.value
                  /\ prize' = p
                  /\ total_won' = ZAdd(total_won, ZInt(p))
                  /\ IF p > 0 /\ k \notin DOMAIN win_summary
                     THEN /\ Fail("KeyError")
                          /\ UNCHANGED win_summary
                     ELSE /\ win_summary' = IF p > 0 THEN record_win(win_summary, k, p)
                                            ELSE win_summary
                          /\ pc' = IF i + 1 < LoopCount(num_tickets) THEN "loop" ELSE "summary"
                          /\ UNCHANGED <<log, raised>>
    /\ UNCHANGED <<num_tickets, total_spent, winning_numbers, key, out>>

\* line 240
PrintSummary ==
    /\ pc = "summary"
    /\ \E r \in {print_summary(num_tickets, total_spent, total_won)} :
           IF r.exc # None
           THEN Fail(r.exc) /\ UNCHANGED out
           ELSE /\ out' = Append(out, r.value)
                /\ pc' = "analysis"
                /\ UNCHANGED <<log, raised>>
    /\ UNCHANGED <<num_tickets, total_spent, total_won, win_summary, winning_numbers,
                   ticket, prize, key, i>>

\* line 241
PrintProbabilityAnalysis ==
    /\ pc = "analysis"
    /\ \E r \in {print_probability_analysis(win_summary, num_tickets)} :
           /\ out' = Append(out, r.value)
           /\ IF r.exc # None
              THEN Fail(r.exc)
              ELSE /\ pc' = "complete"
                   /\ UNCHANGED <<log, raised>>
    /\ UNCHANGED <<num_tickets, total_spent, total_won, win_summary, winning_numbers,
                   ticket, prize, key, i>>

\* line 243
LogCompleted ==
    /\ pc = "complete"
    /\ log' = Append(log, INFO("Simulation completed successfully"))
    /\ pc' = "done"
    /\ UNCHANGED <<num_tickets, total_spent, total_won, win_summary, winning_numbers,
                   ticket, prize, key, i, out, raised>>

Next ==
    \/ Start
    \/ GenerateDraw
    \/ Iterate
    \/ PrintSummary
    \/ PrintProbabilityAnalysis
    \/ LogCompleted

Spec == Init /\ [][Next]_vars

-----------------------------------------------------------------------------
(* The evaluator as a function: check_win, get_match_description and the   *)
(* key derivation of main applied to a ticket and a draw taken from a      *)
(* family in which every number of white matches from 0 to 5 occurs.       *)

EvalNumbers ==
    { <<[j \in 1..SAMPLE_SIZE |-> s + j], m>> :
        s \in 0..MaxShift, m \in ChoiceOutcomes(MegaMillions.mega_ball_range) }

InitTier ==
    /\ pc = "evaluate"
    /\ ticket \in EvalNumbers
    /\ winning_numbers \in EvalNumbers
    /\ num_tickets = 0
    /\ total_spent = 0
    /\ total_won = ZZero
    /\ win_summary = initialize_win_summary
    /\ prize = 0
    /\ key = Unbound
    /\ i = 0
    /\ log = <<>>
    /\ out = <<>>
    /\ raised = None

\* lines 228 and 231-236 of main
Evaluate ==
    /\ pc = "evaluate"
    /\ prize' = check_win(ticket, winning_numbers)
    /\ key' = IF prize' > 0
              THEN aggregation_key(get_match_description(ticket, winning_numbers))
              ELSE Unbound
    /\ pc' = "evaluated"
    /\ UNCHANGED <<num_tickets, total_spent, total_won, win_summary, winning_numbers,
                   ticket, i, log, out, raised>>

NextTier == Evaluate

SpecTier == InitTier /\ [][NextTier]_vars

-----------------------------------------------------------------------------
(* The reporter as a function: print_summary and                           *)
(* print_probability_analysis applied to num_tickets in 0..MaxTickets, the *)
(* total_spent main computes for it, some totals and some summaries.       *)

ZERO_ODDS == [num |-> 0, den |-> 1]    \* WinData's default odds, 0.0

ReportTotals == {ZZero, ZInt(2), ZInt(JACKPOT_AMOUNT), ZAdd(ZInt(JACKPOT_AMOUNT), ZInt(JACKPOT_AMOUNT))}

ReportSummaries ==
    { [initialize_win_summary EXCEPT ![k].count = c, ![k].odds = o] :
        k \in DOMAIN initialize_win_summary,
        c \in 0..MaxCount,
        o \in {initialize_win_summary[TierOrder[1]].odds, initialize_win_summary[TierOrder[9]].odds,
               ZERO_ODDS} }

InitReport ==
    /\ pc = "report"
    /\ num_tickets \in 0..MaxTickets
    /\ total_spent = num_tickets * MegaMillions.ticket_cost
    /\ total_won \in ReportTotals
    /\ win_summary \in ReportSummaries
    /\ winning_numbers = Unbound
    /\ ticket = Unbound
    /\ prize = 0
    /\ key = Unbound
    /\ i = 0
    /\ log = <<>>
    /\ out = <<>>
    /\ raised = None

CallPrintSummary ==
    /\ pc = "report"
    /\ \E r \in {print_summary(num_tickets, total_spent, total_won)} :
           /\ raised' = r.exc
           /\ out' = IF r.exc = None THEN Append(out, r.value) ELSE out
    /\ pc' = "summary"
    /\ UNCHANGED <<num_tickets, total_spent, total_won, win_summary, winning_numbers,
                   ticket, prize, key, i, log>>

CallPrintProbabilityAnalysis ==
    /\ pc = "report"
    /\ \E r \in {print_probability_analysis(win_summary, num_tickets)} :
           /\ raised' = r.exc
           /\ out' = Append(out, r.value)
    /\ pc' = "analysis"
    /\ UNCHANGED <<num_tickets, total_spent, total_won, win_summary, winning_numbers,
                   ticket, prize, key, i, log>>

NextReport ==
    \/ CallPrintSummary
    \/ CallPrintProbabilityAnalysis

SpecReport == InitReport /\ [][NextReport]_vars

-----------------------------------------------------------------------------
(* Properties                                                              *)

\* The prize tier of each winning pair (white matches, mega match)
TierName ==
    (<<5, TRUE>> :> TierOrder[1]) @@ (<<5, FALSE>> :> TierOrder[2]) @@
    (<<4, TRUE>> :> TierOrder[3]) @@ (<<4, FALSE>> :> TierOrder[4]) @@
    (<<3, TRUE>> :> TierOrder[5]) @@ (<<3, FALSE>> :> TierOrder[6]) @@
    (<<2, TRUE>> :> TierOrder[7]) @@ (<<1, TRUE>> :> TierOrder[8]) @@
    (<<0, TRUE>> :> TierOrder[9])

MatchPair(t, w) == <<Cardinality(ToSet(t[1]) \cap ToSet(w[1])), t[2] = w[2]>>

\* C1: whenever check_win pays, the key main derives from the match
\* description is a key of initialize_win_summary, it is the tier of the
\* ticket's (white_matches, mega_match) pair, and that tier's prize is the
\* payout; 5 white matches with the mega ball go to "5 + Mega Ball", not "5".
C1_TierLabelAgreesWithPayout ==
    (pc = "evaluated" /\ prize > 0) =>
        LET pair == MatchPair(ticket, winning_numbers)
        IN  /\ key \in DOMAIN initialize_win_summary
            /\ pair \in DOMAIN TierName
            /\ key = TierName[pair]
            /\ initialize_win_summary[key].prize = prize
            /\ (pair = <<5, TRUE>> => key = S_5PlusMegaBall /\ key # <<"5">>)

C1_Witness ==
    /\ pc = "evaluated"
    /\ MatchPair(ticket, winning_numbers) = <<5, TRUE>>
    /\ prize = JACKPOT_AMOUNT
    /\ key = S_5PlusMegaBall

\* The payout table of the specification
PayoutTable(n, m) ==
    CASE n = 5 /\ m -> 1000000000
      [] n = 5 /\ ~m -> 1000000
      [] n = 4 /\ m -> 10000
      [] n = 4 /\ ~m -> 500
      [] n = 3 /\ m -> 200
      [] n = 3 /\ ~m -> 10
      [] n = 2 /\ m -> 10
      [] n = 1 /\ m -> 4
      [] n = 0 /\ m -> 2
      [] OTHER -> 0

\* C2: for every ticket and draw check_win returns the table value of the
\* pair (number of common white balls, equality of the mega balls), and 0
\* for the pairs (2,false), (1,false), (0,false).
C2_PayoutTableTotal ==
    pc = "evaluated" =>
        LET pair == MatchPair(ticket, winning_numbers)
        IN  /\ pair[1] \in 0..5
            /\ prize = PayoutTable(pair[1], pair[2])
            /\ (pair \in {<<2, FALSE>>, <<1, FALSE>>, <<0, FALSE>>} => prize = 0)

C2_Witness ==
    /\ pc = "evaluated"
    /\ MatchPair(ticket, winning_numbers) = <<3, TRUE>>
    /\ prize = 200

ValidNumbers(x) ==
    /\ Len(x) = 2
    /\ Len(x[1]) = 5
    /\ \A a, b \in 1..Len(x[1]) : a < b => x[1][a] < x[1][b]
    /\ Cardinality(ToSet(x[1])) = 5
    /\ \A a \in 1..Len(x[1]) : x[1][a] >= 1 /\ x[1][a] <= 70
    /\ x[2] >= 1 /\ x[2] <= 25

\* C3: the winning draw and every ticket of a run have exactly 5 pairwise
\* distinct white balls in 1..70, in ascending order, and a mega ball in 1..25.
C3_GeneratedNumbersValid ==
    /\ winning_numbers # Unbound => ValidNumbers(winning_numbers)
    /\ ticket # Unbound => ValidNumbers(ticket)

C3_Witness ==
    /\ pc = "done"
    /\ winning_numbers = <<<<66, 67, 68, 69, 70>>, 25>>
    /\ ticket = <<<<1, 2, 3, 4, 5>>, 1>>

RECURSIVE SumCountsFrom(_, _)
SumCountsFrom(ws, j) ==
    IF j > Len(TierOrder) THEN 0 ELSE ws[TierOrder[j]].count + SumCountsFrom(ws, j + 1)

RECURSIVE SumTotalsFrom(_, _)
SumTotalsFrom(ws, j) ==
    IF j > Len(TierOrder) THEN ZZero
    ELSE ZAdd(ws[TierOrder[j]].total, SumTotalsFrom(ws, j + 1))

SummaryBlocks == { j \in 1..Len(out) : out[j].block = "Results Summary" }
TableBlocks == { j \in 1..Len(out) : out[j].block = "Probability Analysis" }

\* C4: after every iteration of the ticket loop the counts of the 9 tiers
\* sum to at most the number of tickets evaluated so far (at most
\* num_tickets), and their totals sum to total_won, which is the total the
\* summary reports.
C4_AggregatorInvariant ==
    win_summary # Unbound =>
        /\ DOMAIN win_summary = ToSet(TierOrder)
        /\ SumCountsFrom(win_summary, 1) <= i
        /\ i <= num_tickets
        /\ SumTotalsFrom(win_summary, 1) = total_won
        /\ \A j \in SummaryBlocks : out[j].won = SumTotalsFrom(win_summary, 1)

C4_Witness ==
    /\ pc = "done"
    /\ SumCountsFrom(win_summary, 1) = 7
    /\ win_summary[S_5PlusMegaBall].count = 3
    /\ ZCmp(total_won, ZInt(2147483647)) > 0

\* C5: a step of the ticket loop whose ticket pays increments the count of
\* the matching tier by 1 and adds the payout to its total, and leaves the
\* count and total of the other 8 tiers unchanged; a step whose ticket pays
\* nothing leaves every count, every total and total_won unchanged; no step
\* changes a tier's prize or odds or the set of keys.
C5_Step ==
    win_summary # Unbound =>
        /\ DOMAIN win_summary' = DOMAIN win_summary
        /\ \A k \in DOMAIN win_summary :
             /\ win_summary'[k].prize = win_summary[k].prize
             /\ win_summary'[k].odds = win_summary[k].odds
        /\ IF pc = "loop" /\ pc' # "failed"
           THEN LET pair == MatchPair(ticket', winning_numbers)
                    payout == PayoutTable(pair[1], pair[2])
                IN  /\ prize' = payout
                    /\ total_won' = ZAdd(total_won, ZInt(payout))
                    /\ IF payout > 0
                       THEN \A k \in DOMAIN win_summary :
                              IF k = TierName[pair]
                              THEN /\ win_summary'[k].count = win_summary[k].count + 1
                                   /\ win_summary'[k].total =
                                        ZAdd(win_summary[k].total, ZInt(payout))
                              ELSE /\ win_summary'[k].count = win_summary[k].count
                                   /\ win_summary'[k].total = win_summary[k].total
                       ELSE win_summary' = win_summary /\ total_won' = total_won
           ELSE win_summary' = win_summary /\ total_won' = total_won

C5_AggregationStep == [][C5_Step]_vars

C5_Witness ==
    /\ pc = "loop"
    /\ i = 3
    /\ prize = 0
    /\ win_summary[<<"5">>].count = 2
    /\ SumCountsFrom(win_summary, 1) = 2

\* The except branch of main (lines 244-246) is never entered: range(1, 71)
\* holds 70 >= 5 values and range(1, 26) is not empty, so neither
\* random.sample nor random.choice raises, and a run of 10 tickets divides by
\* a positive total_spent.
NoRunFails ==
    /\ pc # "failed"
    /\ raised = None
    /\ \A j \in 1..Len(log) : log[j].level # "ERROR"

\* C7: print_summary and print_probability_analysis complete without
\* raising for every num_tickets >= 0 (0 included), total_spent =
\* num_tickets * ticket price, total_won >= 0 and any tier counts.
C7_ReporterNeverRaises ==
    pc \in {"summary", "analysis"} => raised = None

\* C8: in every row of the probability table, when the expected count
\* num_tickets * odds is 0 the row is printed without a division error and
\* its diff% is 0, whatever the observed count; when it is positive the
\* diff% is (observed - expected) / expected * 100.
C8_RowDiffPercent ==
    pc = "analysis" =>
        /\ raised = None
        /\ Len(out) = 1
        /\ Len(out[1].rows) = Len(TierOrder)
        /\ \A j \in 1..Len(TierOrder) :
             LET row == out[1].rows[j]
                 data == win_summary[TierOrder[j]]
                 expected == QFrac(num_tickets * data.odds.num, data.odds.den)
             IN  /\ row.actual = data.count
                 /\ QEq(row.expected, expected)
                 /\ QIsZero(expected) <=> (num_tickets = 0 \/ data.odds.num = 0)
                 /\ QIsZero(expected) => QIsZero(row.diff_percent)
                 /\ QPos(expected) =>
                      QEq(QMul(row.diff_percent, expected),
                          QMul(QSub(QInt(row.actual), expected), QInt(100)))

C8_Witness ==
    /\ pc = "analysis"
    /\ raised = None
    /\ num_tickets = 0
    /\ win_summary[S_MegaBallOnly].count = 2
    /\ QIsZero(out[1].rows[9].diff_percent)

\* C9: total_spent is num_tickets * 2.00; the summary reports the net
\* total_won - total_spent and the return total_won / total_spent * 100; a
\* run of 10 tickets in which no ticket wins reports a net of -20.00 and a
\* return of 0.
C9_SummaryArithmetic ==
    pc # "start" =>
        /\ total_spent = num_tickets * 2
        /\ \A j \in SummaryBlocks :
             LET b == out[j]
             IN  /\ b.tickets = num_tickets
                 /\ b.spent = total_spent
                 /\ b.won = total_won
                 /\ ZAdd(b.net, ZInt(total_spent)) = total_won
                 /\ QEq(QMul(b.return, QInt(total_spent)), QMul(QOfZ(total_won), QInt(100)))
                 /\ ZIsZero(total_won) =>
                      /\ b.spent = 20
                      /\ b.net = ZInt(-20)
                      /\ b.net = ZNeg(ZInt(total_spent))
                      /\ QIsZero(b.return)

C9_Witness ==
    /\ pc = "done"
    /\ ZIsZero(total_won)
    /\ \E j \in SummaryBlocks : out[j].net = ZInt(-20) /\ QIsZero(out[j].return)

StartLine == INFO("Starting Mega Millions simulation")
CompletionLine == INFO("Simulation completed successfully")
Logged(line) == \E j \in 1..Len(log) : log[j] = line
ErrorLogged == \E j \in 1..Len(log) : log[j].level = "ERROR"
Terminated == pc \in {"done", "failed"}

\* Steps main has still to take: a bound that each step lowers
StepsLeft ==
    CASE pc = "start" -> NUM_TICKETS + 6
      [] pc = "draw" -> NUM_TICKETS + 5
      [] pc = "loop" -> (NUM_TICKETS - i) + 4
      [] pc = "summary" -> 3
      [] pc = "analysis" -> 2
      [] pc = "complete" -> 1
      [] OTHER -> 0

C10_Order ==
    \* the start line comes before any generation
    /\ (winning_numbers # Unbound \/ ticket # Unbound \/ i > 0) =>
         (Len(log) >= 1 /\ log[1] = StartLine)
    \* the draw comes before any ticket, and is the one generated (and
    \* printed) then: it is generated once
    /\ (ticket # Unbound \/ i > 0) => winning_numbers # Unbound
    /\ winning_numbers # Unbound =>
         (out # <<>> /\ out[1].block = "Winning numbers" /\ out[1].numbers = winning_numbers)
    \* the summary comes after exactly num_tickets = 10 tickets
    /\ (pc \in {"summary", "analysis", "complete", "done"}) => (i = 10 /\ num_tickets = 10)
    /\ i <= 10
    /\ SummaryBlocks # {} => i = 10
    \* then the table, then the completion line, which is the last thing done
    /\ \A t \in TableBlocks : \E s \in SummaryBlocks : s < t
    /\ Logged(CompletionLine) =>
         (pc = "done" /\ TableBlocks # {} /\ log[Len(log)] = CompletionLine)
    /\ pc = "done" =>
         /\ Cardinality(SummaryBlocks) = 1
         /\ Cardinality(TableBlocks) = 1
         /\ log = <<StartLine, CompletionLine>>
    \* a run that has ended has logged exactly one of the two lines
    /\ Terminated => (Logged(CompletionLine) <=> ~ErrorLogged)
    \* a run that has not ended is at a step of main, whose action is enabled
    \* there (the effect of every action is defined for every outcome)
    /\ Terminated \/ pc \in {"start", "draw", "loop", "summary", "analysis", "complete"}
    /\ pc = "loop" => i < 10
    /\ StepsLeft >= 0

\* every step brings the end of the run nearer, keeps the draw and the order
C10_Progress ==
    /\ StepsLeft' < StepsLeft
    /\ winning_numbers # Unbound => winning_numbers' = winning_numbers
    /\ C10_Order'

\* C10: the start line is logged before any number is generated; the draw
\* is generated once and before any ticket; a run in which no generation
\* fails generates and evaluates exactly 10 tickets against that draw, then
\* prints the summary, then the table, and logs the completion line last;
\* every run terminates (every step lowers the bound StepsLeft on the steps
\* that remain, and the run stops only at the end), having logged the completion line or the error line and not both.
C10_RunOrderAndTermination ==
    /\ C10_Order
    /\ [][C10_Progress]_vars

C10_Witness ==
    /\ pc = "done"
    /\ i = 10
    /\ log = <<StartLine, CompletionLine>>
    /\ Len(out) = 3

====
